---------------------------- MODULE Spec2Model ----------------------------
(***************************************************************************)
(* Model of the sort-imports lint rule of src/src/sort-imports.ts.         *)
(*                                                                         *)
(* A source file is a sequence of tokens.  Offsets (node.range) count      *)
(* tokens from 0, as the rule's character offsets count characters, and    *)
(* a range <<s, e>> covers the tokens s+1 .. e of the 1-based sequence.    *)
(* Names are sequences of UTF-16 code units, compared as JavaScript        *)
(* compares strings.                                                       *)
(***************************************************************************)
EXTENDS Integers, Sequences, FiniteSets, TLC

(***************************************************************************)
(* Bounds of the model.                                                    *)
(***************************************************************************)
MaxDecls == 3
MaxNamed == 3
MaxPasses == 1

(***************************************************************************)
(* Strings.                                                                *)
(***************************************************************************)
\* String.prototype.toLowerCase on one code unit: 'A'..'Z' map to 'a'..'z'.
LowerUnit(c) == IF c >= 65 /\ c <= 90 THEN c + 32 ELSE c

toLowerCase(s) == [i \in 1..Len(s) |-> LowerUnit(s[i])]

\* JavaScript's s < t on strings: lexicographic on code units, a proper
\* prefix being smaller.
StrLess(s, t) ==
  \E k \in 1..(Len(t)) :
     /\ \A j \in 1..(k - 1) : j <= Len(s) /\ s[j] = t[j]
     /\ \/ Len(s) = k - 1
        \/ Len(s) >= k /\ s[k] < t[k]

\* JavaScript's s > t on strings.
StrGreater(s, t) == StrLess(t, s)

\* Truthiness of a string: the empty string is falsy.
Truthy(s) == Len(s) > 0

(***************************************************************************)
(* Tokens of the source text.                                              *)
(***************************************************************************)
Tok(t, v) == [t |-> t, v |-> v]

IMPORT  == Tok("import", <<>>)
TYPE    == Tok("type", <<>>)
COMMA   == Tok(",", <<>>)
LBRACE  == Tok("{", <<>>)
RBRACE  == Tok("}", <<>>)
FROM    == Tok("from", <<>>)
NL      == Tok("\n", <<>>)
COMMENT == Tok("comment", <<>>)
Default(n)   == Tok("ImportDefaultSpecifier", n)
Namespace(n) == Tok("ImportNamespaceSpecifier", n)
Named(n)     == Tok("ImportSpecifier", n)
Source(v)    == Tok("source", v)

SpecifierTypes ==
  {"ImportDefaultSpecifier", "ImportNamespaceSpecifier", "ImportSpecifier"}

\* String.prototype.substring(a, b) / slice(a, b) for 0 <= a <= b <= length.
substring(text, a, b) == SubSeq(text, a + 1, b)

RECURSIVE Concat(_)
Concat(seqs) == IF seqs = <<>> THEN <<>> ELSE Head(seqs) \o Concat(Tail(seqs))

(***************************************************************************)
(* The host parser: the import declarations of a text, in source order.    *)
(* A declaration runs from its import keyword to its module source.        *)
(***************************************************************************)
RECURSIVE Ascending(_)
Ascending(S) ==
  IF S = {} THEN <<>>
  ELSE LET m == CHOOSE x \in S : \A y \in S : x <= y
       IN <<m>> \o Ascending(S \ {m})

\* loc.line of the token at 1-based position i.
Line(text, i) == 1 + Cardinality({j \in 1..(i - 1) : text[j] = NL})

ParseDeclaration(text, p) ==
  LET q == CHOOSE k \in p..Len(text) :
             /\ text[k].t = "source"
             /\ \A j \in p..(k - 1) : text[j].t # "source"
      at == Ascending({i \in p..q : text[i].t \in SpecifierTypes})
  IN [ type       |-> "ImportDeclaration",
       range      |-> <<p - 1, q>>,
       loc        |-> [start |-> Line(text, p), end |-> Line(text, q)],
       importKind |-> IF text[p + 1] = TYPE THEN "type" ELSE "value",
       specifiers |-> [k \in 1..Len(at) |->
                         [ type  |-> text[at[k]].t,
                           local |-> text[at[k]].v,
                           range |-> <<at[k] - 1, at[k]>> ]],
       source     |-> text[q].v ]

\* sourceCode.ast.body.filter((n) => n.type === "ImportDeclaration")
Parse(text) ==
  LET starts == Ascending({i \in 1..Len(text) : text[i] = IMPORT})
  IN [k \in 1..Len(starts) |-> ParseDeclaration(text, starts[k])]

\* sourceCode.getCommentsBefore(specifier).length: a comment directly before.
getCommentsBefore(text, specifier) ==
  specifier.range[1] >= 1 /\ text[specifier.range[1]] = COMMENT

\* sourceCode.getCommentsAfter(specifier).length: a comment directly after.
getCommentsAfter(text, specifier) ==
  specifier.range[2] + 1 <= Len(text) /\ text[specifier.range[2] + 1] = COMMENT

(***************************************************************************)
(* Input files: the text of one declaration and of a whole file.           *)
(***************************************************************************)
\* The text between the named specifiers at positions i and i + 1.
Separator(cmt, i) == IF cmt /\ i = 1 THEN <<COMMENT, COMMA>> ELSE <<COMMA>>

NamedList(named, cmt) ==
  <<LBRACE>>
  \o Concat([i \in 1..Len(named) |->
               <<Named(named[i])>>
               \o (IF i < Len(named) THEN Separator(cmt, i) ELSE <<>>)])
  \o <<RBRACE>>

DeclText(d) ==
  <<IMPORT>>
  \o (IF d.kind = "type" THEN <<TYPE>> ELSE <<>>)
  \o (IF Truthy(d.def) THEN <<Default(d.def)>> ELSE <<>>)
  \o (IF Truthy(d.def) /\ (Truthy(d.ns) \/ d.named # <<>>) THEN <<COMMA>> ELSE <<>>)
  \o (IF Truthy(d.ns) THEN <<Namespace(d.ns)>> ELSE <<>>)
  \o (IF d.named # <<>> THEN NamedList(d.named, d.cmt) ELSE <<>>)
  \o (IF Truthy(d.def) \/ Truthy(d.ns) \/ d.named # <<>> THEN <<FROM>> ELSE <<>>)
  \o <<Source(d.src)>>

\* gaps[i] is the text between declarations i and i + 1.
FileText(ds, gaps) ==
  <<COMMENT, NL>>
  \o Concat([i \in 1..Len(ds) |->
               DeclText(ds[i]) \o (IF i < Len(ds) THEN gaps[i] ELSE <<>>)])
  \o <<NL>>

(***************************************************************************)
(* State of one lint pass over one file, and of the host that runs it.     *)
(***************************************************************************)
VARIABLES
  options,              \* context.options[0], with the defaults filled in
  sourceText,           \* sourceCode.getText(): the text of the file
  allDeclarations,      \* the import declarations of the file
  initialSource,        \* <<>> while undefined
  previousDeclaration,  \* index into allDeclarations, 0 while undefined
  cursor,               \* the declaration the host's traversal visits next
  reports,              \* what context.report received in this pass
  pass                  \* number of fixes the host has applied to the file

vars == <<options, sourceText, allDeclarations, initialSource,
          previousDeclaration, cursor, reports, pass>>

ignoreCase == options.ignoreCase
ignoreMemberSort == options.ignoreMemberSort
memberSyntaxSortOrder == options.memberSyntaxSortOrder
typeSortStrategy == options.typeSortStrategy

(***************************************************************************)
(* Helpers of the rule.                                                    *)
(***************************************************************************)
getSortableName(specifier, ic) ==
  IF ic THEN toLowerCase(specifier.local) ELSE specifier.local

\* usedMemberSyntax telling single from multiple by the number of specifiers.
usedMemberSyntaxByCount(node) ==
  IF node.specifiers = <<>> THEN "none"
  ELSE IF node.specifiers[1].type = "ImportNamespaceSpecifier" THEN "all"
  ELSE IF Len(node.specifiers) = 1 THEN "single"
  ELSE "multiple"

usedMemberSyntax(node) ==
  IF node.specifiers = <<>> THEN "none"
  ELSE CASE node.specifiers[1].type = "ImportNamespaceSpecifier" -> "all"
         [] node.specifiers[1].type = "ImportDefaultSpecifier" -> "single"
         [] node.specifiers[1].type = "ImportSpecifier" -> "multiple"
         [] OTHER -> "none"

\* Array.prototype.indexOf: 0-based, -1 when absent.
indexOf(arr, x) ==
  IF \E i \in 1..Len(arr) : arr[i] = x
  THEN (CHOOSE i \in 1..Len(arr) : arr[i] = x /\ \A j \in 1..(i - 1) : arr[j] # x) - 1
  ELSE -1

getMemberParameterGroupIndex(node, order) == indexOf(order, usedMemberSyntax(node))

getFirstLocalMemberName(node) ==
  IF Len(node.specifiers) # 0 THEN node.specifiers[1].local ELSE node.source

isLineBetween(firstNode, secondNode) ==
  firstNode.loc.end < secondNode.loc.start - 1

isTypeImport(node) == node.importKind = "type"

\* node.specifiers.filter((specifier) => specifier.type === "ImportSpecifier")
ImportSpecifiersOf(node) ==
  SelectSeq(node.specifiers, LAMBDA sp : sp.type = "ImportSpecifier")

\* names.findIndex((name, index, array) => array[index - 1] > name), 0-based.
firstUnsortedIndexOf(names) ==
  IF \E i \in 2..Len(names) : StrGreater(names[i - 1], names[i])
  THEN (CHOOSE i \in 2..Len(names) :
          /\ StrGreater(names[i - 1], names[i])
          /\ \A j \in 2..(i - 1) : ~StrGreater(names[j - 1], names[j])) - 1
  ELSE -1

SortableNames(importSpecifiers) ==
  [i \in 1..Len(importSpecifiers) |-> getSortableName(importSpecifiers[i], ignoreCase)]

(***************************************************************************)
(* The two compare functions sortAndFixAllNodes hands to sort.             *)
(***************************************************************************)
\* The comparefn of the specifier sort.
SpecifierCompare(specifierA, specifierB) ==
  LET aName == getSortableName(specifierA, ignoreCase)
      bName == getSortableName(specifierB, ignoreCase)
  IN IF StrGreater(aName, bName) THEN 1 ELSE -1

\* The comparefn of the declaration sort, on [node, text] pairs: a is taken
\* as the previous declaration and b as the current one.
SectionCompare(a, b) ==
  LET currentMemberSyntaxGroupIndex == getMemberParameterGroupIndex(b.node, memberSyntaxSortOrder)
      currentMemberIsType == isTypeImport(b.node)
      previousMemberSyntaxGroupIndex == getMemberParameterGroupIndex(a.node, memberSyntaxSortOrder)
      previousMemberIsType == isTypeImport(a.node)
      currentLocalMemberName ==
        IF ignoreCase THEN toLowerCase(getFirstLocalMemberName(b.node))
        ELSE getFirstLocalMemberName(b.node)
      previousLocalMemberName ==
        IF ignoreCase THEN toLowerCase(getFirstLocalMemberName(a.node))
        ELSE getFirstLocalMemberName(a.node)
  IN IF typeSortStrategy # "mixed" /\ currentMemberIsType # previousMemberIsType
     THEN IF \/ currentMemberIsType /\ typeSortStrategy = "before"
             \/ previousMemberIsType /\ typeSortStrategy = "after"
          THEN 1 ELSE -1
     ELSE IF currentMemberSyntaxGroupIndex # previousMemberSyntaxGroupIndex
     THEN IF currentMemberSyntaxGroupIndex < previousMemberSyntaxGroupIndex THEN 1 ELSE -1
     ELSE IF Truthy(previousLocalMemberName) /\ Truthy(currentLocalMemberName)
     THEN IF StrLess(currentLocalMemberName, previousLocalMemberName) THEN 1 ELSE -1
     ELSE 0

\* The call of the comparefn handed to sort.
Compare(comparefn, x, y) ==
  IF comparefn = "specifiers" THEN SpecifierCompare(x, y) ELSE SectionCompare(x, y)

\* BinaryInsert writing the pivot at its place without moving the elements
\* from there up to the pivot's old place.
BinaryInsertOverwriting(work, k, comparefn) ==
  LET pivot == work[k]
      search[lr \in (0..k) \X (0..k)] ==
        IF lr[1] >= lr[2] THEN lr[1]
        ELSE LET mid == lr[1] + ((lr[2] - lr[1]) \div 2)
             IN IF Compare(comparefn, pivot, work[mid + 1]) < 0
                THEN search[<<lr[1], mid>>]
                ELSE search[<<mid + 1, lr[2]>>]
      left == search[<<0, k - 1>>]
  IN [i \in 1..Len(work) |-> IF i = left + 1 THEN pivot ELSE work[i]]

(***************************************************************************)
(* Array.prototype.sort as Node's engine runs it on an array shorter than  *)
(* 64 elements: the leading run is found and, when descending, reversed;   *)
(* the other elements are placed by binary insertion.  comparefn is called *)
(* with the later element first.  A comparefn that answers -1 for a tie is *)
(* not consistent, so the order of ties is what this algorithm makes it.   *)
(* comparefn names which of the rule's two compare functions is passed.   *)
(***************************************************************************)
BinaryInsert(work, k, comparefn) ==
  LET pivot == work[k]
      search[lr \in (0..k) \X (0..k)] ==
        IF lr[1] >= lr[2] THEN lr[1]
        ELSE LET mid == lr[1] + ((lr[2] - lr[1]) \div 2)
             IN IF Compare(comparefn, pivot, work[mid + 1]) < 0
                THEN search[<<lr[1], mid>>]
                ELSE search[<<mid + 1, lr[2]>>]
      left == search[<<0, k - 1>>]
  IN [i \in 1..Len(work) |->
        IF i <= left THEN work[i]
        ELSE IF i = left + 1 THEN pivot
        ELSE IF i <= k THEN work[i - 1]
        ELSE work[i]]

\* Whether the element at index i is ordered before its predecessor.
Descends(arr, comparefn, i) == Compare(comparefn, arr[i], arr[i - 1]) < 0

\* The length of the leading run: strictly descending when the second element
\* is ordered before the first, and non-descending otherwise.
CountRun(arr, comparefn) ==
  CHOOSE k \in 2..Len(arr) :
    /\ \A i \in 3..k : Descends(arr, comparefn, i) = Descends(arr, comparefn, 2)
    /\ \/ k = Len(arr)
       \/ Descends(arr, comparefn, k + 1) # Descends(arr, comparefn, 2)

\* The array with its leading run made ascending.
MakeRun(arr, runLength, isDescending) ==
  IF isDescending
  THEN [i \in 1..Len(arr) |-> IF i <= runLength THEN arr[runLength + 1 - i] ELSE arr[i]]
  ELSE arr

\* The elements after the leading run inserted one by one.
InsertRest(run, runLength, comparefn) ==
  LET placed[k \in runLength..Len(run)] ==
        IF k = runLength THEN run ELSE BinaryInsert(placed[k - 1], k, comparefn)
  IN placed[Len(run)]

ArraySort(arr, comparefn) ==
  IF Len(arr) < 2 THEN arr
  ELSE InsertRest(MakeRun(arr, CountRun(arr, comparefn), Descends(arr, comparefn, 2)),
                  CountRun(arr, comparefn), comparefn)

(***************************************************************************)
(* sortAndFixAllNodes: the replacement text for all the declarations.      *)
(***************************************************************************)
rich(initial, nodes) ==
  [i \in 1..Len(nodes) |->
     [node |-> nodes[i], text |-> substring(initial, nodes[i].range[1], nodes[i].range[2])]]

\* betweens with the texts taken in the opposite order.
betweensReversed(initial, nodes) ==
  [i \in 1..(Len(nodes) - 1) |->
     substring(initial, nodes[Len(nodes) - i].range[2], nodes[Len(nodes) - i + 1].range[1])]

betweens(initial, nodes) ==
  [i \in 1..(Len(nodes) - 1) |->
     substring(initial, nodes[i].range[2], nodes[i + 1].range[1])]

\* RebuiltSpecifiers with every specifier followed by the text that followed
\* that specifier in the original list, the last one by the text that
\* followed the specifier it replaces.
RebuiltSpecifiersCarrying(initial, importSpecifiers, sortedSpecifiers) ==
  LET last == importSpecifiers[Len(importSpecifiers)]
      place(s) == CHOOSE k \in 1..Len(importSpecifiers) : importSpecifiers[k] = s
      textAfter(k) ==
        substring(initial, importSpecifiers[k].range[2], importSpecifiers[k + 1].range[1])
      carried(index) ==
        IF index = Len(importSpecifiers) THEN <<>>
        ELSE IF sortedSpecifiers[index] = last THEN textAfter(place(sortedSpecifiers[Len(importSpecifiers)]))
        ELSE textAfter(place(sortedSpecifiers[index]))
  IN Concat([index \in 1..Len(importSpecifiers) |->
               substring(initial, sortedSpecifiers[index].range[1],
                         sortedSpecifiers[index].range[2])
               \o carried(index)])

\* The specifier list of a declaration rebuilt in sorted order: the sorted
\* specifiers, each followed by the text that followed the specifier at the
\* same position of the original list.
RebuiltSpecifiers(initial, importSpecifiers, sortedSpecifiers) ==
  LET textAfterSpecifier(index) ==
        IF index = Len(importSpecifiers) THEN <<>>
        ELSE substring(initial, importSpecifiers[index].range[2],
                       importSpecifiers[index + 1].range[1])
  IN Concat([index \in 1..Len(importSpecifiers) |->
               substring(initial, sortedSpecifiers[index].range[1],
                         sortedSpecifiers[index].range[2])
               \o textAfterSpecifier(index)])

\* The callback of rich.map: a declaration with its specifiers put in order.
FixSpecifiers(initial, n) ==
  LET node == n.node
      importSpecifiers == ImportSpecifiersOf(node)
      firstUnsortedIndex == firstUnsortedIndexOf(SortableNames(importSpecifiers))
  IN IF ~ignoreMemberSort /\ firstUnsortedIndex # -1
     THEN LET before == substring(initial, node.range[1], importSpecifiers[1].range[1])
              after == substring(initial, importSpecifiers[Len(importSpecifiers)].range[2],
                                 node.range[2])
          IN [node |-> node,
              text |-> before
                       \o RebuiltSpecifiers(initial, importSpecifiers,
                                            ArraySort(importSpecifiers, "specifiers"))
                       \o after]
     ELSE n

fixed(initial, nodes) ==
  LET r == rich(initial, nodes)
  IN [i \in 1..Len(nodes) |-> FixSpecifiers(initial, r[i])]

\* StartsSection never opening a section: all the declarations sorted as one.
StartsSectionNever(lastFixed, current) == FALSE

\* Whether current opens a new section after lastFixed.
StartsSection(lastFixed, current) == isLineBetween(lastFixed.node, current.node)

\* Group by ImportDeclarations that are consecutive (no lines inbetween).
sections(fx) ==
  LET acc[k \in 0..Len(fx)] ==
        IF k = 0 THEN << <<>> >>
        ELSE LET secs == acc[k - 1]
                 lastSection == secs[Len(secs)]
                 current == fx[k]
             IN IF Len(lastSection) = 0
                THEN [secs EXCEPT ![Len(secs)] = Append(lastSection, current)]
                ELSE IF StartsSection(lastSection[Len(lastSection)], current)
                THEN Append(secs, <<current>>)
                ELSE [secs EXCEPT ![Len(secs)] = Append(lastSection, current)]
  IN acc[Len(fx)]

\* Sort each grouping, and flatten the groupings.
flat(secs) == Concat([s \in 1..Len(secs) |-> ArraySort(secs[s], "section")])

sorted(initial, nodes) == flat(sections(fixed(initial, nodes)))

\* The sorted declarations joined by the texts that stood between the
\* declarations at the same positions of the original file.
join(srt, btw) ==
  Concat([i \in 1..Len(srt) |-> (IF i # 1 THEN btw[i - 1] ELSE <<>>) \o srt[i].text])

sortAndFixAllNodes(initial, nodes) ==
  join(sorted(initial, nodes), betweens(initial, nodes))

(***************************************************************************)
(* The reports of the ImportDeclaration handler.                           *)
(***************************************************************************)
NoData == [typeSortStrategy |-> "", syntaxA |-> "", syntaxB |-> "", memberName |-> <<>>]

NoFix == [defined |-> FALSE, range |-> <<0, 0>>, text |-> <<>>]

\* FixRange ending where the last declaration starts.
FixRangeToLastStart(nodes) == <<nodes[1].range[1], nodes[Len(nodes)].range[1]>>

\* [allDeclarations[0].range[0], allDeclarations[allDeclarations.length - 1].range[1]]
FixRange(nodes) == <<nodes[1].range[1], nodes[Len(nodes)].range[2]>>

\* replaceAll sorting the declarations from previousDeclaration on only.
replaceAllFromPrevious(initial) ==
  LET from == IF previousDeclaration = 0 THEN 1 ELSE previousDeclaration
      nodes == SubSeq(allDeclarations, from, Len(allDeclarations))
  IN [defined |-> TRUE,
      range   |-> FixRange(nodes),
      text    |-> sortAndFixAllNodes(initial, nodes)]

\* fixer.replaceTextRange(range, sortAndFixAllNodes(initialSource, allDeclarations))
replaceAll(initial) ==
  [defined |-> TRUE,
   range   |-> FixRange(allDeclarations),
   text    |-> sortAndFixAllNodes(initial, allDeclarations)]

Report(messageId, i, data, fix) ==
  [messageId |-> messageId, node |-> i, data |-> data, fix |-> fix]

\* typeSortStrategy !== "mixed" && currentMemberIsType !== previousMemberIsType
TypeStepDecides(currentMemberIsType, previousMemberIsType) ==
  typeSortStrategy # "mixed" /\ currentMemberIsType # previousMemberIsType

\* TypeOrderWrong with the two strategies exchanged.
TypeOrderWrongSwapped(currentMemberIsType, previousMemberIsType) ==
  \/ currentMemberIsType /\ typeSortStrategy = "after"
  \/ previousMemberIsType /\ typeSortStrategy = "before"

\* The condition of the typeOrder report.
TypeOrderWrong(currentMemberIsType, previousMemberIsType) ==
  \/ currentMemberIsType /\ typeSortStrategy = "before"
  \/ previousMemberIsType /\ typeSortStrategy = "after"

\* The condition of the wrongOrder report, once the group indices differ.
GroupOrderWrong(currentMemberSyntaxGroupIndex, previousMemberSyntaxGroupIndex) ==
  currentMemberSyntaxGroupIndex < previousMemberSyntaxGroupIndex

\* wrongOrderData with the two groups exchanged.
wrongOrderDataSwapped(currentMemberSyntaxGroupIndex, previousMemberSyntaxGroupIndex) ==
  [NoData EXCEPT
     !.syntaxA = memberSyntaxSortOrder[previousMemberSyntaxGroupIndex + 1],
     !.syntaxB = memberSyntaxSortOrder[currentMemberSyntaxGroupIndex + 1]]

\* The data of the wrongOrder report.
wrongOrderData(currentMemberSyntaxGroupIndex, previousMemberSyntaxGroupIndex) ==
  [NoData EXCEPT
     !.syntaxA = memberSyntaxSortOrder[currentMemberSyntaxGroupIndex + 1],
     !.syntaxB = memberSyntaxSortOrder[previousMemberSyntaxGroupIndex + 1]]

\* AlphabeticalWrong without the test that both names are non-empty.
AlphabeticalWrongUnguarded(currentLocalMemberName, previousLocalMemberName) ==
  StrLess(currentLocalMemberName, previousLocalMemberName)

\* The condition of the alphabeticalOrder report.
AlphabeticalWrong(currentLocalMemberName, previousLocalMemberName) ==
  /\ Truthy(previousLocalMemberName)
  /\ Truthy(currentLocalMemberName)
  /\ StrLess(currentLocalMemberName, previousLocalMemberName)

\* The comparison of the declaration at index i with previousDeclaration.
OrderReports(i, initial) ==
  LET node == allDeclarations[i]
      prev == allDeclarations[previousDeclaration]
  IN IF previousDeclaration # 0 /\ ~isLineBetween(prev, node)
     THEN
       LET currentMemberSyntaxGroupIndex == getMemberParameterGroupIndex(node, memberSyntaxSortOrder)
           currentMemberIsType == isTypeImport(node)
           previousMemberSyntaxGroupIndex == getMemberParameterGroupIndex(prev, memberSyntaxSortOrder)
           previousMemberIsType == isTypeImport(prev)
           currentLocalMemberName ==
             IF ignoreCase THEN toLowerCase(getFirstLocalMemberName(node))
             ELSE getFirstLocalMemberName(node)
           previousLocalMemberName ==
             IF ignoreCase THEN toLowerCase(getFirstLocalMemberName(prev))
             ELSE getFirstLocalMemberName(prev)
       IN IF TypeStepDecides(currentMemberIsType, previousMemberIsType)
          THEN IF TypeOrderWrong(currentMemberIsType, previousMemberIsType)
               THEN << Report("typeOrder", i,
                              [NoData EXCEPT !.typeSortStrategy = typeSortStrategy],
                              replaceAll(initial)) >>
               ELSE <<>>
          ELSE IF currentMemberSyntaxGroupIndex # previousMemberSyntaxGroupIndex
          THEN IF GroupOrderWrong(currentMemberSyntaxGroupIndex, previousMemberSyntaxGroupIndex)
               THEN << Report("wrongOrder", i,
                              wrongOrderData(currentMemberSyntaxGroupIndex,
                                             previousMemberSyntaxGroupIndex),
                              replaceAll(initial)) >>
               ELSE <<>>
          ELSE IF AlphabeticalWrong(currentLocalMemberName, previousLocalMemberName)
               THEN << Report("alphabeticalOrder", i, NoData, replaceAll(initial)) >>
               ELSE <<>>
     ELSE <<>>

\* importSpecifiers.some((specifier) => getCommentsBefore(specifier).length
\*                                   || getCommentsAfter(specifier).length)
hasComments(text, importSpecifiers) ==
  \E k \in 1..Len(importSpecifiers) :
     \/ getCommentsBefore(text, importSpecifiers[k])
     \/ getCommentsAfter(text, importSpecifiers[k])

\* The fix callback of the memberAlphabetical report.
MemberFix(importSpecifiers, initial) ==
  IF hasComments(sourceText, importSpecifiers) THEN NoFix ELSE replaceAll(initial)

\* memberNameOf reporting the name the comparison used.
memberNameSortable(specifier) == getSortableName(specifier, ignoreCase)

\* data.memberName of the memberAlphabetical report.
memberNameOf(specifier) == specifier.local

\* Multiple members of an import declaration should also be sorted.
MemberReports(i, initial) ==
  LET node == allDeclarations[i]
      importSpecifiers == ImportSpecifiersOf(node)
      firstUnsortedIndex == firstUnsortedIndexOf(SortableNames(importSpecifiers))
  IN IF ~ignoreMemberSort /\ firstUnsortedIndex # -1
     THEN << Report("memberAlphabetical", i,
                    [NoData EXCEPT !.memberName = memberNameOf(importSpecifiers[firstUnsortedIndex + 1])],
                    MemberFix(importSpecifiers, initial)) >>
     ELSE <<>>

(***************************************************************************)
(* The configurations and the files of the model.                          *)
(***************************************************************************)
NameA == <<65>>
NameB == <<66>>
Namea == <<97>>
Names == {NameA, NameB, Namea}
ModuleName == <<109>>

DefaultOrder == <<"none", "all", "multiple", "single">>
OtherOrder == <<"all", "single", "multiple", "none">>

OptionSet ==
  [ ignoreCase : BOOLEAN,
    ignoreMemberSort : BOOLEAN,
    memberSyntaxSortOrder : {DefaultOrder, OtherOrder},
    typeSortStrategy : {"mixed", "before", "after"} ]

\* The named specifier lists: up to MaxNamed distinct names.
NamedLists ==
  UNION {{ns \in [1..n -> Names] : \A i, j \in 1..n : i # j => ns[i] # ns[j]}
         : n \in 1..MaxNamed}

Decl(kind, def, ns, named, cmt, src) ==
  [kind |-> kind, def |-> def, ns |-> ns, named |-> named, cmt |-> cmt, src |-> src]

\* import 'a'
SideEffectImports ==
  {Decl("value", <<>>, <<>>, <<>>, FALSE, s) : s \in {<<>>, Namea, NameB}}

\* import a from 'm' and import type a from 'm'
DefaultImports ==
  {Decl(k, n, <<>>, <<>>, FALSE, ModuleName) : k \in {"value", "type"}, n \in Names}

\* import * as a from 'm'
NamespaceImports ==
  {Decl("value", <<>>, n, <<>>, FALSE, ModuleName) : n \in Names}

\* import {a, B} from 'm' and import {a /* c */, B} from 'm'
NamedImports ==
  {Decl("value", <<>>, <<>>, l, FALSE, ModuleName) : l \in NamedLists}
  \cup {Decl("value", <<>>, <<>>, l, TRUE, ModuleName) : l \in {x \in NamedLists : Len(x) >= 2}}

\* import a, {B, A} from 'm' and import a, * as B from 'm'
CombinedImports ==
  {Decl("value", Namea, <<>>, l, FALSE, ModuleName) : l \in {x \in NamedLists : Len(x) >= 2}}
  \cup {Decl("value", Namea, NameB, <<>>, FALSE, ModuleName)}

DeclSet ==
  SideEffectImports \cup DefaultImports \cup NamespaceImports
  \cup NamedImports \cup CombinedImports

\* The declarations of the files of more than two declarations.
PlainDeclSet ==
  {Decl("value", n, <<>>, <<>>, FALSE, ModuleName) : n \in Names}
  \cup {Decl("type", Namea, <<>>, <<>>, FALSE, ModuleName),
        Decl("value", <<>>, <<>>, <<NameB, Namea>>, FALSE, ModuleName)}

Adjacent == <<NL>>
BlankLine == <<NL, NL>>
CommentLine == <<NL, COMMENT, NL>>

FilesOf(n, decls, gapSet) ==
  {FileText(ds, gaps) : ds \in [1..n -> decls], gaps \in [1..(n - 1) -> gapSet]}

FileSet ==
  UNION {FilesOf(n, DeclSet, {Adjacent, BlankLine, CommentLine}) : n \in 1..2}
  \cup UNION {FilesOf(n, PlainDeclSet, {Adjacent, BlankLine}) : n \in 3..MaxDecls}

(***************************************************************************)
(* The state machine: the host creates the rule for a file, visits the     *)
(* import declarations in source order, and may apply one reported fix     *)
(* and lint the fixed text again.                                          *)
(***************************************************************************)
Init ==
  /\ options \in OptionSet
  /\ sourceText \in FileSet
  /\ allDeclarations = Parse(sourceText)
  /\ initialSource = <<>>
  /\ previousDeclaration = 0
  /\ cursor = 1
  /\ reports = <<>>
  /\ pass = 0

\* NextPrevious keeping the first declaration visited.
NextPreviousFirstOnly(i) == IF previousDeclaration = 0 THEN i ELSE previousDeclaration

\* previousDeclaration = node, at the end of the handler.
NextPrevious(i) == i

\* The handler, called with the declaration at the cursor.
ImportDeclaration ==
  /\ cursor <= Len(allDeclarations)
  /\ LET initial == IF initialSource = <<>> THEN sourceText ELSE initialSource
     IN /\ initialSource' = initial
        /\ reports' = reports \o OrderReports(cursor, initial) \o MemberReports(cursor, initial)
  /\ previousDeclaration' = NextPrevious(cursor)
  /\ cursor' = cursor + 1
  /\ UNCHANGED <<options, sourceText, allDeclarations, pass>>

\* The host applies the fix of report r to the text and creates the rule anew.
ApplyFix(r) ==
  /\ cursor > Len(allDeclarations)
  /\ pass < MaxPasses
  /\ reports[r].fix.defined
  /\ sourceText' = substring(sourceText, 0, reports[r].fix.range[1])
                   \o reports[r].fix.text
                   \o substring(sourceText, reports[r].fix.range[2], Len(sourceText))
  /\ allDeclarations' = Parse(sourceText')
  /\ initialSource' = <<>>
  /\ previousDeclaration' = 0
  /\ cursor' = 1
  /\ reports' = <<>>
  /\ pass' = pass + 1
  /\ UNCHANGED options

Next ==
  \/ ImportDeclaration
  \/ \E r \in 1..Len(reports) : ApplyFix(r)

Spec == Init /\ [][Next]_vars

(***************************************************************************)
(* What the properties below read of a state.                              *)
(***************************************************************************)
\* The declarations the handler has been called with in this pass.
Visited == 1..(cursor - 1)

OrderKinds == {"typeOrder", "wrongOrder", "alphabeticalOrder"}

ReportsOn(i, kinds) ==
  {r \in 1..Len(reports) : reports[r].node = i /\ reports[r].messageId \in kinds}

KindsOn(i) == {reports[r].messageId : r \in ReportsOn(i, OrderKinds \cup {"memberAlphabetical"})}

\* Declaration i has a predecessor with no line between the two.
AdjacentPair(i) ==
  /\ i >= 2
  /\ ~(allDeclarations[i - 1].loc.end < allDeclarations[i].loc.start - 1)

IsType(i) == allDeclarations[i].importKind = "type"

\* The group of a declaration, by the kind of its first specifier.
GroupName(i) ==
  LET sp == allDeclarations[i].specifiers
  IN IF Len(sp) = 0 THEN "none"
     ELSE IF sp[1].type = "ImportNamespaceSpecifier" THEN "all"
     ELSE IF sp[1].type = "ImportDefaultSpecifier" THEN "single"
     ELSE "multiple"

GroupIndex(i) ==
  CHOOSE k \in 1..4 : options.memberSyntaxSortOrder[k] = GroupName(i)

Normalised(name) == IF options.ignoreCase THEN toLowerCase(name) ELSE name

RawFirstName(i) ==
  LET d == allDeclarations[i]
  IN IF Len(d.specifiers) = 0 THEN d.source ELSE d.specifiers[1].local

FirstName(i) == Normalised(RawFirstName(i))

\* The pair (i - 1, i) is decided by the type-strategy step.
TypeDecided(a, b) ==
  /\ options.typeSortStrategy \in {"before", "after"}
  /\ IsType(a) # IsType(b)

\* The report the cascade makes on b when a is its adjacent predecessor.
PairVerdict(a, b) ==
  IF TypeDecided(a, b)
  THEN IF \/ IsType(b) /\ options.typeSortStrategy = "before"
          \/ IsType(a) /\ options.typeSortStrategy = "after"
       THEN {"typeOrder"} ELSE {}
  ELSE IF GroupIndex(b) # GroupIndex(a)
  THEN IF GroupIndex(b) < GroupIndex(a) THEN {"wrongOrder"} ELSE {}
  ELSE IF FirstName(a) # <<>> /\ FirstName(b) # <<>> /\ StrLess(FirstName(b), FirstName(a))
  THEN {"alphabeticalOrder"} ELSE {}

\* The local names of the named specifiers of a declaration, in source order.
NamedLocals(node) ==
  LET sp == SelectSeq(node.specifiers, LAMBDA x : x.type = "ImportSpecifier")
  IN [k \in 1..Len(sp) |-> sp[k].local]

\* The positions of a name list whose name sorts before the one just before it.
Unsorted(names) ==
  {k \in 2..Len(names) : StrLess(Normalised(names[k]), Normalised(names[k - 1]))}

(***************************************************************************)
(* What the properties below read of a fix.  Every fix of a pass is        *)
(* computed from the text and the declarations of that pass.               *)
(***************************************************************************)
\* The reports that carry a fix.
Fixes == {r \in 1..Len(reports) : reports[r].fix.defined}

\* A line lies between declarations j and j + 1.
LineGap(j) == allDeclarations[j].loc.end < allDeclarations[j + 1].loc.start - 1

SameRun(x, y) == \A j \in x..(y - 1) : ~LineGap(j)

RunFirst(i) == CHOOSE j \in 1..i : SameRun(j, i) /\ \A m \in 1..(j - 1) : ~SameRun(m, i)

RunLast(i) ==
  CHOOSE j \in i..Len(allDeclarations) :
     SameRun(i, j) /\ \A m \in (j + 1)..Len(allDeclarations) : ~SameRun(i, m)

\* The declaration a node of the sorted list is.
NodeIndex(node) ==
  CHOOSE i \in 1..Len(allDeclarations) : allDeclarations[i].range = node.range

\* FixOrder[k] is the declaration whose text a fix puts at slot k.
FixOrder ==
  LET srt == sorted(sourceText, allDeclarations)
  IN [k \in 1..Len(srt) |-> NodeIndex(srt[k].node)]

\* The slot of declaration i in a fix.
Pos(i) == CHOOSE k \in 1..Len(allDeclarations) : FixOrder[k] = i

\* The text a fix gives declaration i.
RenderedText(i) == sorted(sourceText, allDeclarations)[Pos(i)].text

\* The declarations read back from the text of the fix of report r.
FixDecls(r) == Parse(reports[r].fix.text)

\* The text of the k-th declaration of the text of the fix of report r.
SlotText(r, k) ==
  substring(reports[r].fix.text, FixDecls(r)[k].range[1], FixDecls(r)[k].range[2])

\* Declaration i has a comment directly before or after a named specifier.
HasSpecifierComment(i) ==
  \E k \in 1..Len(sourceText) :
     /\ sourceText[k].t = "ImportSpecifier"
     /\ k > allDeclarations[i].range[1]
     /\ k <= allDeclarations[i].range[2]
     /\ \/ sourceText[k - 1] = COMMENT
        \/ sourceText[k + 1] = COMMENT

\* Two declarations the ordering cascade does not tell apart.
Tie(x, y) ==
  /\ IsType(x) = IsType(y) \/ options.typeSortStrategy = "mixed"
  /\ GroupIndex(x) = GroupIndex(y)
  /\ FirstName(x) = FirstName(y)

(***************************************************************************)
(* C1.  Idempotence of the fix: after the range of a reported fix is       *)
(* replaced by its text, analysing the resulting declarations reports no   *)
(* violation of any kind.                                                  *)
(***************************************************************************)
C1_FixIsIdempotent == pass >= 1 => reports = <<>>

(***************************************************************************)
(* C2.  Comment guard: in the text of every fix, a declaration that has a  *)
(* comment directly before or after one of its named specifiers keeps its  *)
(* named specifiers in their original order.                               *)
(***************************************************************************)
C2_CommentGuard ==
  \A r \in Fixes :
     \A k \in 1..Len(allDeclarations) :
        HasSpecifierComment(FixOrder[k]) =>
          /\ Len(FixDecls(r)) = Len(allDeclarations)
          /\ NamedLocals(FixDecls(r)[k]) = NamedLocals(allDeclarations[FixOrder[k]])

(***************************************************************************)
(* C3.  Run isolation: if declaration X precedes declaration Y and a line  *)
(* lies between two consecutive declarations from X to Y, then in every    *)
(* fix the text of X still precedes the text of Y.                         *)
(***************************************************************************)
C3_RunIsolation ==
  LET srt == sorted(sourceText, allDeclarations)
      order == FixOrder
      slot == [i \in 1..Len(allDeclarations) |->
                 CHOOSE k \in 1..Len(allDeclarations) : order[k] = i]
  IN \A text \in {reports[r].fix.text : r \in Fixes} :
        LET decls == Parse(text)
            slotText(k) == substring(text, decls[k].range[1], decls[k].range[2])
        IN \A x, y \in 1..Len(allDeclarations) :
              (x < y /\ ~SameRun(x, y)) =>
                /\ Len(decls) = Len(allDeclarations)
                /\ slot[x] < slot[y]
                /\ slotText(slot[x]) = srt[slot[x]].text
                /\ slotText(slot[y]) = srt[slot[y]].text

\* A fix over a file in which the declaration after a gap would sort before
\* the declaration in front of the gap, and which changes the text.
C3_Witness ==
  \E r \in Fixes :
     /\ \E x \in 1..(Len(allDeclarations) - 1) :
           LineGap(x) /\ PairVerdict(x, x + 1) # {}
     /\ reports[r].fix.text #
          substring(sourceText, reports[r].fix.range[1], reports[r].fix.range[2])

(***************************************************************************)
(* C4.  Stable sort of declarations: two declarations of one run that tie  *)
(* under the ordering cascade appear in the text of every fix in their     *)
(* original relative order.                                                *)
(***************************************************************************)
C4_StableSort ==
  \A r \in Fixes :
     \A x, y \in 1..Len(allDeclarations) :
        (x < y /\ SameRun(x, y) /\ Tie(x, y) /\ RenderedText(x) # RenderedText(y)) =>
          Pos(x) < Pos(y)

(***************************************************************************)
(* C5.  Fix scope, as claimed: the range of a fix runs from the start of   *)
(* the first to the end of the last declaration of the run that contains   *)
(* the declaration reported.                                               *)
(***************************************************************************)
C5_FixScopeIsRun ==
  \A r \in Fixes :
     reports[r].fix.range =
       << allDeclarations[RunFirst(reports[r].node)].range[1],
          allDeclarations[RunLast(reports[r].node)].range[2] >>

(***************************************************************************)
(* C5, amended.  The range of every fix runs from the start of the first   *)
(* import declaration of the file to the end of the last import            *)
(* declaration of the file, whichever run the reported declaration is in.  *)
(***************************************************************************)
C5_FixScopeIsFile ==
  \A r \in Fixes :
     /\ sourceText[reports[r].fix.range[1] + 1] = IMPORT
     /\ \A k \in 1..reports[r].fix.range[1] : sourceText[k] # IMPORT
     /\ sourceText[reports[r].fix.range[2]].t = "source"
     /\ \A k \in (reports[r].fix.range[2] + 1)..Len(sourceText) :
           sourceText[k].t # "source"

\* A fix reported in a file of several runs.
C5_Witness ==
  \E r \in Fixes :
     \/ RunFirst(reports[r].node) # 1
     \/ RunLast(reports[r].node) # Len(allDeclarations)

(***************************************************************************)
(* C6.  Type-strategy step: for an adjacent pair (A, B) with strategy      *)
(* before or after and exactly one type import, typeOrder is reported on   *)
(* B iff (B is a type import and the strategy is before) or (A is a type   *)
(* import and the strategy is after), and neither wrongOrder nor           *)
(* alphabeticalOrder is reported for the pair; with strategy mixed or      *)
(* equal type-ness typeOrder is never reported.                            *)
(***************************************************************************)
C6_TypeStrategyStep ==
  \A i \in Visited :
     AdjacentPair(i) =>
       IF TypeDecided(i - 1, i)
       THEN /\ ("typeOrder" \in KindsOn(i)) <=>
                 (\/ IsType(i) /\ options.typeSortStrategy = "before"
                  \/ IsType(i - 1) /\ options.typeSortStrategy = "after")
            /\ "wrongOrder" \notin KindsOn(i)
            /\ "alphabeticalOrder" \notin KindsOn(i)
       ELSE "typeOrder" \notin KindsOn(i)

\* A type import reported under "before" although its group sorts earlier.
C6_Witness ==
  \E i \in Visited :
     /\ AdjacentPair(i)
     /\ options.typeSortStrategy = "before"
     /\ IsType(i) /\ ~IsType(i - 1)
     /\ GroupIndex(i) < GroupIndex(i - 1)
     /\ KindsOn(i) = {"typeOrder"}

(***************************************************************************)
(* C7.  Group-order step: for an adjacent pair (A, B) the type-strategy    *)
(* step does not decide, wrongOrder is reported on B iff B's index in      *)
(* memberSyntaxSortOrder is less than A's, with data syntaxA = B's group   *)
(* and syntaxB = A's group.                                                *)
(***************************************************************************)
C7_GroupOrderStep ==
  \A i \in Visited :
     (AdjacentPair(i) /\ ~TypeDecided(i - 1, i)) =>
       /\ (ReportsOn(i, {"wrongOrder"}) # {}) <=> (GroupIndex(i) < GroupIndex(i - 1))
       /\ \A r \in ReportsOn(i, {"wrongOrder"}) :
             /\ reports[r].data.syntaxA = GroupName(i)
             /\ reports[r].data.syntaxB = GroupName(i - 1)

\* A default import followed by a named import under the default order.
C7_Witness ==
  \E i \in Visited :
     /\ AdjacentPair(i)
     /\ options.memberSyntaxSortOrder = DefaultOrder
     /\ GroupName(i - 1) = "single" /\ GroupName(i) = "multiple"
     /\ \E r \in ReportsOn(i, {"wrongOrder"}) :
           reports[r].data.syntaxA = "multiple" /\ reports[r].data.syntaxB = "single"

(***************************************************************************)
(* C8.  Alphabetical step: for an adjacent pair (A, B) the type-strategy   *)
(* step does not decide, alphabeticalOrder is reported on B iff the group  *)
(* indices are equal, both first names are non-empty and B's first name    *)
(* is less than A's by code units; the first name is the local name of     *)
(* the first specifier, or the module source when there is no specifier,   *)
(* lower-cased when ignoreCase is set.                                     *)
(***************************************************************************)
C8_AlphabeticalStep ==
  \A i \in Visited :
     (AdjacentPair(i) /\ ~TypeDecided(i - 1, i)) =>
       ((ReportsOn(i, {"alphabeticalOrder"}) # {}) <=>
          /\ GroupIndex(i) = GroupIndex(i - 1)
          /\ FirstName(i) # <<>>
          /\ FirstName(i - 1) # <<>>
          /\ StrLess(FirstName(i), FirstName(i - 1)))

\* Two side-effect imports out of order by their module sources only once
\* the case is folded.
C8_Witness ==
  \E i \in Visited :
     /\ AdjacentPair(i)
     /\ options.ignoreCase
     /\ Len(allDeclarations[i].specifiers) = 0
     /\ Len(allDeclarations[i - 1].specifiers) = 0
     /\ ~StrLess(RawFirstName(i), RawFirstName(i - 1))
     /\ ReportsOn(i, {"alphabeticalOrder"}) # {}

(***************************************************************************)
(* C9.  Member check: for every declaration visited, when ignoreMemberSort *)
(* is false exactly one memberAlphabetical report is made iff some named   *)
(* specifier's case-normalised local name is less than that of the named   *)
(* specifier just before it, and it names the original local name of the   *)
(* first such specifier; when ignoreMemberSort is true none is made.       *)
(***************************************************************************)
C9_MemberCheck ==
  \A i \in Visited :
     LET names == NamedLocals(allDeclarations[i])
         bad == Unsorted(names)
         made == ReportsOn(i, {"memberAlphabetical"})
     IN IF options.ignoreMemberSort \/ bad = {}
        THEN made = {}
        ELSE /\ Cardinality(made) = 1
             /\ \A r \in made :
                   reports[r].data.memberName =
                     names[CHOOSE k \in bad : \A j \in bad : k <= j]

\* A member report that names an upper-case specifier, unsorted only with
\* the case folded, on a declaration that also has an ordering report.
C9_Witness ==
  \E i \in Visited :
     /\ options.ignoreCase
     /\ KindsOn(i) \cap OrderKinds # {}
     /\ \E r \in ReportsOn(i, {"memberAlphabetical"}) :
           reports[r].data.memberName # toLowerCase(reports[r].data.memberName)

(***************************************************************************)
(* C10.  Comparison partner: an ordering report on declaration B is        *)
(* decided only by comparing B with the declaration visited just before    *)
(* it, and only when that one is adjacent; the first declaration of the    *)
(* file and the first one after a gap receive no ordering report, nor      *)
(* does a declaration out of order only with an earlier predecessor.       *)
(***************************************************************************)
C10_ComparisonPartner ==
  \A i \in Visited :
     /\ Cardinality(ReportsOn(i, OrderKinds)) <= 1
     /\ KindsOn(i) \cap OrderKinds =
          IF AdjacentPair(i) THEN PairVerdict(i - 1, i) ELSE {}

\* The third of three adjacent declarations is out of order with the first
\* only, and is not reported.
C10_Witness ==
  /\ Len(allDeclarations) = 3
  /\ cursor = 4
  /\ AdjacentPair(2) /\ AdjacentPair(3)
  /\ PairVerdict(1, 3) # {}
  /\ PairVerdict(2, 3) = {}
  /\ KindsOn(3) \cap OrderKinds = {}

\* The first declaration after a gap, out of order with the one before the
\* gap, is not reported.
C10_AfterGap ==
  \E i \in Visited :
     /\ i >= 2
     /\ ~AdjacentPair(i)
     /\ PairVerdict(i - 1, i) # {}
     /\ KindsOn(i) \cap OrderKinds = {}

\* The texts of the fixes the reports carry.
FixTexts == {reports[r].fix.text : r \in Fixes}

\* The original text between declarations i and i + 1.
Gap(i) == substring(sourceText, allDeclarations[i].range[2], allDeclarations[i + 1].range[1])

(***************************************************************************)
(* C11.  Gap preservation: the text of every fix reads as as many          *)
(* declarations as the file has, the text between the declarations at      *)
(* slots i and i + 1 is the original text between the declarations at      *)
(* positions i and i + 1, the text starts with the first and ends with the *)
(* last declaration, and the text at every slot is the rendered text of a  *)
(* declaration.                                                            *)
(***************************************************************************)
C11_GapPreservation ==
  LET srt == sorted(sourceText, allDeclarations)
  IN \A text \in FixTexts :
        LET decls == Parse(text)
        IN /\ Len(decls) = Len(allDeclarations)
           /\ decls[1].range[1] = 0
           /\ decls[Len(decls)].range[2] = Len(text)
           /\ \A i \in 1..(Len(decls) - 1) :
                 substring(text, decls[i].range[2], decls[i + 1].range[1]) = Gap(i)
           /\ \A k \in 1..Len(decls) :
                 \E j \in 1..Len(srt) :
                    substring(text, decls[k].range[1], decls[k].range[2]) = srt[j].text

\* A fix that moves declarations in a file whose two gaps differ.
C11_Witness ==
  /\ Len(allDeclarations) >= 3
  /\ Gap(1) # Gap(2)
  /\ FixTexts # {}
  /\ \E k \in 1..Len(allDeclarations) : FixOrder[k] # k

\* The kinds of the specifier tokens of declaration i, read off the text in
\* source order.
SpecifierKinds(i) ==
  LET toks == SubSeq(sourceText, allDeclarations[i].range[1] + 1, allDeclarations[i].range[2])
      sp == SelectSeq(toks, LAMBDA x : x.t \in SpecifierTypes)
  IN [k \in 1..Len(sp) |-> sp[k].t]

\* The group the text of declaration i shows.
ShapeOf(i) ==
  LET kinds == SpecifierKinds(i)
  IN IF kinds = <<>> THEN "none"
     ELSE IF kinds[1] = "ImportNamespaceSpecifier" THEN "all"
     ELSE IF kinds[1] = "ImportDefaultSpecifier" THEN "single"
     ELSE "multiple"

NamedOf(i) == SelectSeq(allDeclarations[i].specifiers, LAMBDA x : x.type = "ImportSpecifier")

\* The original text of declaration i.
OriginalText(i) == substring(sourceText, allDeclarations[i].range[1], allDeclarations[i].range[2])

\* The arrangements of n things.
Arrangements(n) == {p \in [1..n -> 1..n] : \A a, b \in 1..n : a # b => p[a] # p[b]}

\* The text of declaration i with its named specifiers in arrangement p and
\* everything else where it was.
Rearranged(i, p) ==
  LET sp == NamedOf(i)
      n == Len(sp)
      prefix == substring(sourceText, allDeclarations[i].range[1], sp[1].range[1])
      suffix == substring(sourceText, sp[n].range[2], allDeclarations[i].range[2])
      sep(k) == IF k = n THEN <<>>
                ELSE substring(sourceText, sp[k].range[2], sp[k + 1].range[1])
  IN prefix
     \o Concat([k \in 1..n |->
                  substring(sourceText, sp[p[k]].range[1], sp[p[k]].range[2]) \o sep(k)])
     \o suffix

\* Arrangement p puts the named specifiers of declaration i in ascending
\* order of their names as the configuration compares them.
AscendingNames(i, p) ==
  \A k \in 2..Len(NamedOf(i)) :
     ~StrLess(Normalised(NamedOf(i)[p[k]].local), Normalised(NamedOf(i)[p[k - 1]].local))

\* The named specifiers of declaration i are to be put in order.
NeedsRebuild(i) ==
  /\ ~options.ignoreMemberSort
  /\ Unsorted([k \in 1..Len(NamedOf(i)) |-> NamedOf(i)[k].local]) # {}

C13_WithDefault ==
  /\ FixTexts # {}
  /\ \E i \in 1..Len(allDeclarations) :
        /\ NeedsRebuild(i)
        /\ Len(NamedOf(i)) = 3
        /\ allDeclarations[i].specifiers[1].type = "ImportDefaultSpecifier"

(***************************************************************************)
(* C14.  Fix determinism within a pass: any two fixes among the reports    *)
(* of a pass, on whatever declarations and of whatever kinds, have the     *)
(* same range and the same text, and that text is the one made from the    *)
(* source text, the declaration list and the configuration alone, at       *)
(* whatever point of the visits the fix was made.                          *)
(***************************************************************************)
C14_FixDeterminism ==
  /\ \A r1, r2 \in Fixes :
        /\ reports[r1].fix.range = reports[r2].fix.range
        /\ reports[r1].fix.text = reports[r2].fix.text
  /\ \A r \in Fixes :
        reports[r].fix.text = sortAndFixAllNodes(sourceText, allDeclarations)

\* Two fixes that change the text, made at different points of the visits
\* on different declarations and for different kinds of violation.
C14_Witness ==
  \E r1, r2 \in Fixes :
     /\ reports[r1].node # reports[r2].node
     /\ reports[r1].messageId # reports[r2].messageId
     /\ reports[r1].node >= 2
     /\ reports[r2].node >= 3
     /\ reports[r1].fix.text
          # substring(sourceText, reports[r1].fix.range[1], reports[r1].fix.range[2])

\* Every declaration of the file has been visited.
PassDone == cursor > Len(allDeclarations)

\* No report of any kind is on a declaration from x to y.
CleanFromTo(x, y) == \A r \in 1..Len(reports) : reports[r].node \notin x..y

(***************************************************************************)
(* C15.  Clean runs are left alone: once the whole file is visited, in the *)
(* text of every fix the text of a run on whose declarations nothing was   *)
(* reported is its original text, from the start of its first to the end   *)
(* of its last declaration.                                                *)
(***************************************************************************)
C15_CleanRunsLeftAlone ==
  PassDone =>
    \A text \in FixTexts :
       LET decls == Parse(text)
       IN \A x \in 1..Len(allDeclarations) :
             (x = RunFirst(x) /\ CleanFromTo(x, RunLast(x))) =>
               /\ Len(decls) = Len(allDeclarations)
               /\ substring(text, decls[x].range[1], decls[RunLast(x)].range[2])
                    = substring(sourceText, allDeclarations[x].range[1],
                                allDeclarations[RunLast(x)].range[2])

\* How many times each token occurs in a text.
TokenCount(text) ==
  [x \in {text[i] : i \in 1..Len(text)} |-> Cardinality({i \in 1..Len(text) : text[i] = x})]

\* What a declaration imports: its kind, its module, its specifiers that
\* are not named ones in order, and how many times it names each local name.
Imported(node) ==
  LET named == NamedLocals(node)
      others == SelectSeq(node.specifiers, LAMBDA x : x.type # "ImportSpecifier")
  IN [ importKind |-> node.importKind,
       source     |-> node.source,
       others     |-> [k \in 1..Len(others) |-> <<others[k].type, others[k].local>>],
       named      |-> TokenCount(named) ]

(***************************************************************************)
(* C16.  No import is lost or duplicated: the text of every fix is as long *)
(* as the text it replaces, token for token the same tokens; read back, it *)
(* has the original declarations, each exactly once, in some order; and    *)
(* each of them names exactly the named specifiers it named, each once.    *)
(***************************************************************************)
C16_NoImportLostOrDuplicated ==
  \A r \in Fixes :
     LET text == reports[r].fix.text
         replaced == substring(sourceText, reports[r].fix.range[1], reports[r].fix.range[2])
         decls == Parse(text)
     IN /\ Len(text) = Len(replaced)
        /\ TokenCount(text) = TokenCount(replaced)
        /\ Len(decls) = Len(allDeclarations)
        /\ \E p \in Arrangements(Len(allDeclarations)) :
              \A k \in 1..Len(allDeclarations) :
                 /\ Imported(decls[k]) = Imported(allDeclarations[p[k]])
                 /\ Len(NamedLocals(decls[k])) = Len(NamedLocals(allDeclarations[p[k]]))

\* A fix that both moves a declaration and puts named specifiers in order.
C16_Witness ==
  /\ Fixes # {}
  /\ \E k \in 1..Len(allDeclarations) : FixOrder[k] # k
  /\ \E i \in 1..Len(allDeclarations) : NeedsRebuild(i) /\ Len(NamedOf(i)) = 3

=============================================================================
